---- MODULE Spec2Model ----
(***************************************************************************)
(* Model of the queue Worker (src/queue/worker.go): the consumption loop   *)
(* Worker.Work, the per-message protocol WorkerMessage.Process and the     *)
(* panic containment WorkerMessage.recoverPanic, together with their       *)
(* environment: the context, the queue transport's delivery stream and the *)
(* caller-owned error channel; and of the crawler's existingItem           *)
(* (getExistingItem, updateReferences, update, shouldCrawl) against the    *)
(* index.  Spec and FairSpec are the Worker, ItemSpec one reconciliation,  *)
(* RaceSpec two concurrent reconciliations of one hash.                    *)
(***************************************************************************)
EXTENDS Integers, Sequences, FiniteSets, TLC

\* ------------------------------------------------------------------ bounds

\* Deliveries the transport emits before it goes quiet.
MaxDeliveries == 2
\* Largest capacity of the caller's error channel (0 is unbuffered).
MaxErrChanCap == 1

\* Longest reference list the index holds before the reconcilers start.
MaxRefs == 2
\* Calls made on one existingItem.
MaxCalls == 2

\* The history variables record the first MaxLog messages the loop receives
\* (every delivery the transport emitted is among them: receives from the
\* closed stream come after the last delivery). Later messages are processed
\* all the same; only their history is not kept.
MaxLog == MaxDeliveries

\* ------------------------------------------------------------------ values

\* error values: the nil error and the non-nil errors, told apart by the
\* code that made them (kind) and their Error() text
Nil == [kind |-> "nil", text |-> ""]

HandlerErr(t) == [kind |-> "handler", text |-> t]

\* errors.New(x): a fresh error whose text is x
errorsNew(x) == [kind |-> "errors.New", text |-> x]

\* amqp's error of Queue.Consume
TransportErr == [kind |-> "amqp", text |-> "consume failed"]

\* ctx.Err() after cancellation
CtxErrors ==
    { [kind |-> "context", text |-> "context canceled"],
      [kind |-> "context", text |-> "context deadline exceeded"] }

\* the error the runtime substitutes for panic(nil) (Go 1.21 and later)
PanicNilError ==
    [kind |-> "runtime", text |-> "panic called with nil argument (obsolete)"]

\* panic values, by dynamic type: the record carries the string, the error
\* or the integer, the other fields are padding
NilValue == [type |-> "nil", s |-> "", e |-> Nil, i |-> 0]

StringValue(x) == [type |-> "string", s |-> x, e |-> Nil, i |-> 0]

ErrorValue(x) == [type |-> "error", s |-> "", e |-> x, i |-> 0]

IntValue(x) == [type |-> "int", s |-> "", e |-> Nil, i |-> x]

\* the errors a handler returns
HandlerErrors == { HandlerErr("E1") }

\* the values a handler panics with
PanicValues ==
    { StringValue("boom"), ErrorValue(HandlerErr("E1")), IntValue(42), NilValue }

\* what one invocation of Worker.Func does: return nil, return an error, panic
HandlerOutcomes ==
    { [how |-> "return", e |-> Nil, r |-> NilValue] }
      \cup { [how |-> "return", e |-> x, r |-> NilValue] : x \in HandlerErrors }
      \cup { [how |-> "panic", e |-> Nil, r |-> v] : v \in PanicValues }

\* ------------------------------------------------------------------ formatting

Digits == <<"0", "1", "2", "3", "4", "5", "6", "7", "8", "9">>

RECURSIVE Itoa(_)
Itoa(n) ==
    IF n < 0 THEN "-" \o Itoa(-n)
    ELSE IF n < 10 THEN Digits[n + 1]
    ELSE Itoa(n \div 10) \o Digits[(n % 10) + 1]

\* fmt's %v of a panic value
FormatV(r) ==
    CASE r.type = "string" -> r.s
      [] r.type = "error" -> r.e.text
      [] r.type = "int" -> Itoa(r.i)
      [] OTHER -> "<nil>"

\* fmt.Errorf("Unassertable panic error: %v", r)
fmtErrorf(r) ==
    [kind |-> "fmt.Errorf", text |-> "Unassertable panic error: " \o FormatV(r)]

\* ------------------------------------------------------------------ crawler values

\* the names and parent hashes under which the hash is discovered, the item
\* types the index assigns, and the hash itself
Names == { "a", "b" }

Parents == { "P1", "P2" }

Types == { "file", "directory" }

TheHash == "H"

\* indexer.Reference
Reference(nm, p) == [Name |-> nm, ParentHash |-> p]

\* []indexer.Reference: the nil slice, and a non-nil slice with its entries
NilRefs == [nil |-> TRUE, items |-> << >>]

Refs(items) == [nil |-> FALSE, items |-> items]

EmptyRefs == Refs(<< >>)

\* the errors of Indexer.GetReferences and Indexer.IndexItem
StoreErr == [kind |-> "indexer", text |-> "get references failed"]

IndexErr == [kind |-> "indexer", text |-> "index item failed"]

\* the sequences over S of length at most k
SeqsUpTo(S, k) == UNION { [1..m -> S] : m \in 0..k }

\* the parent hashes of a reference list
ParentsOf(refs) == { refs.items[k].ParentHash : k \in 1..Len(refs.items) }

\* ------------------------------------------------------------------ state

VARIABLES
    pc,         \* where Work is: "start", "select", "handling", "send", "stopped"
                \* ("crashed": a panic left the goroutine)
    ret,        \* the value Work returned (Nil until it has)
    ctxErr,     \* ctx.Err(): Nil until the context is cancelled
    subscribed, \* Queue.Consume succeeded
    msgs,       \* the delivery stream (unbuffered): the tag of the delivery the
                \* transport is sending, if any
    closed,     \* the transport closed the delivery stream
    emitted,    \* deliveries the transport has put on the stream
    cur,        \* delivery tag of the message being processed (0: zero Delivery)
    n,          \* number of messages received so far (counts up to MaxLog + 1)
    err,        \* result of Process, to be written to ErrChan
    cap,        \* capacity of ErrChan
    errChan,    \* values buffered in ErrChan
    receiving,  \* the caller is blocked receiving from ErrChan
    handled,    \* history: tags, in order of handler invocation
    returns,    \* history: what each handler invocation did
    decisions,  \* history: Ack/Reject calls [idx, tag, op, flag]
    written     \* history: completed writes to ErrChan [idx, val]

\* the reconcilers of one content hash against the index (existingItem)
VARIABLES
    index,      \* the index's record of the hash: its references and item type
    rec         \* per reconciler: its Indexable, its existingItem and the
                \* history of the calls made on it

workerVars == <<pc, ret, ctxErr, subscribed, msgs, closed, emitted, cur, n, err,
                cap, errChan, receiving, handled, returns, decisions, written>>

crawlVars == <<index, rec>>

vars == <<pc, ret, ctxErr, subscribed, msgs, closed, emitted, cur, n, err, cap,
          errChan, receiving, handled, returns, decisions, written, index, rec>>

cancelled == ctxErr # Nil

\* history is recorded for the first MaxLog messages
Logged(k) == k <= MaxLog

\* Work on entry
WorkerInit ==
    /\ pc = "start"
    /\ ret = Nil
    /\ ctxErr = Nil
    /\ subscribed = FALSE
    /\ msgs = <<>>
    /\ closed = FALSE
    /\ emitted = 0
    /\ cur = 0
    /\ n = 0
    /\ err = Nil
    /\ cap \in 0..MaxErrChanCap
    /\ errChan = <<>>
    /\ receiving = FALSE
    /\ handled = <<>>
    /\ returns = <<>>
    /\ decisions = <<>>
    /\ written = <<>>

\* an IndexItem call's arguments, before any call was made
NoCall == [itemType |-> "", hash |-> "", references |-> NilRefs, lastSeen |-> 0]

\* a reconciler holding its Indexable, before getExistingItem
NewRec(nm, p) ==
    [ pc |-> "new", Name |-> nm, ParentHash |-> p, Hash |-> TheHash,
      exists |-> FALSE, references |-> NilRefs, itemType |-> "",
      fetched |-> NilRefs, seen |-> 0,
      calls |-> 0, lastOp |-> "none", prevOp |-> "none", prev |-> NilRefs,
      retErr |-> Nil, retBool |-> FALSE, skip |-> FALSE,
      nUpdate |-> 0, nWrite |-> 0, nCrawl |-> 0, nSkip |-> 0,
      lastCall |-> NoCall, callErr |-> Nil ]

\* the index's record of a hash it does not hold
NotIndexed == [references |-> NilRefs, itemType |-> "", lastSeen |-> 0, writer |-> 0]

Reconcilers == { 1, 2 }

\* no reconciliation under way
CrawlIdle ==
    /\ index = NotIndexed
    /\ rec = [r \in Reconcilers |-> NewRec("a", "")]

\* the Worker as constructed, its handler's reconcilers not modelled with it
Init == WorkerInit /\ CrawlIdle

\* ------------------------------------------------------------------ Process

\* the calls a message makes on its delivery
Ack(multiple) == [op |-> "Ack", flag |-> multiple]

Reject(requeue) == [op |-> "Reject", flag |-> requeue]

\* the values recover() can return in Process's deferred function after the
\* handler did h: nil when nothing panicked, the panic value otherwise; after
\* panic(nil) it is nil, or the runtime's PanicNilError where the build
\* substitutes it
recover(h) ==
    IF h.how # "panic" THEN { NilValue }
    ELSE IF h.r = NilValue THEN { NilValue, ErrorValue(PanicNilError) }
    ELSE { h.r }

\* recoverPanic: reject without requeue, then turn the panic value into err
recoverPanic(r) ==
    [ calls |-> << Reject(FALSE) >>,
      err |-> CASE r.type = "string" -> errorsNew(r.s)
                [] r.type = "error" -> r.e
                [] OTHER -> fmtErrorf(r) ]

\* the body of Process, before its deferred function runs
ProcessBody(h) ==
    IF h.how = "panic"
    THEN [calls |-> << >>, err |-> Nil]
    ELSE IF h.e # Nil
         THEN [calls |-> << Reject(FALSE) >>, err |-> h.e]
         ELSE [calls |-> << Ack(FALSE) >>, err |-> Nil]

\* Process that requeues the message of a failed handler
ProcessRequeue(h, r) ==
    IF h.how = "return" /\ h.e # Nil
    THEN [calls |-> << Reject(TRUE) >>, err |-> h.e, escapes |-> FALSE]
    ELSE IF r # NilValue
         THEN [ calls |-> recoverPanic(r).calls, err |-> recoverPanic(r).err,
                escapes |-> FALSE ]
         ELSE [ calls |-> ProcessBody(h).calls, err |-> ProcessBody(h).err,
                escapes |-> FALSE ]

\* Process with the test of err inverted
ProcessRejectOnSuccess(h, r) ==
    IF h.how = "return"
    THEN IF h.e = Nil
         THEN [calls |-> << Reject(FALSE) >>, err |-> h.e, escapes |-> FALSE]
         ELSE [calls |-> << Ack(FALSE) >>, err |-> h.e, escapes |-> FALSE]
    ELSE IF r # NilValue
         THEN [ calls |-> recoverPanic(r).calls, err |-> recoverPanic(r).err,
                escapes |-> FALSE ]
         ELSE [calls |-> << >>, err |-> Nil, escapes |-> FALSE]

\* Process without its deferred recover
ProcessNoRecover(h, r) ==
    [ calls |-> ProcessBody(h).calls, err |-> ProcessBody(h).err,
      escapes |-> h.how = "panic" ]

\* Process after the handler did h and recover() returned r: the calls made
\* on the delivery, the error returned, and whether a panic leaves Process
Process(h, r) ==
    IF r # NilValue
    THEN [ calls |-> ProcessBody(h).calls \o recoverPanic(r).calls,
           err |-> recoverPanic(r).err,
           escapes |-> FALSE ]
    ELSE [ calls |-> ProcessBody(h).calls, err |-> ProcessBody(h).err,
           escapes |-> FALSE ]

\* the calls of one message as history entries
Tagged(calls) ==
    [ k \in 1..Len(calls) |->
        [idx |-> n, tag |-> cur, op |-> calls[k].op, flag |-> calls[k].flag] ]

\* ------------------------------------------------------------------ Work

\* Work that enters the loop whatever Consume returned
WorkStartIgnoreErr ==
    /\ pc = "start"
    /\ \E e \in { Nil, TransportErr } :
          /\ pc' = "select"
          /\ ret' = ret
          /\ subscribed' = (e = Nil)
    /\ UNCHANGED <<ctxErr, msgs, closed, emitted, cur, n, err, cap, errChan,
                   receiving, handled, returns, decisions, written>>
    /\ UNCHANGED crawlVars

\* Work up to the loop: Queue.Consume, returning its error if it fails
WorkStart ==
    /\ pc = "start"
    /\ \E e \in { Nil, TransportErr } :
          IF e # Nil
          THEN /\ pc' = "stopped"
               /\ ret' = e
               /\ subscribed' = FALSE
          ELSE /\ pc' = "select"
               /\ ret' = ret
               /\ subscribed' = TRUE
    /\ UNCHANGED <<ctxErr, msgs, closed, emitted, cur, n, err, cap, errChan,
                   receiving, handled, returns, decisions, written>>
    /\ UNCHANGED crawlVars

\* the ctx.Done() case leaving the select only, not the loop
SelectDoneContinue ==
    /\ pc = "select"
    /\ cancelled
    /\ UNCHANGED vars

\* the ctx.Done() case returning nil instead of ctx.Err()
SelectDoneReturnNil ==
    /\ pc = "select"
    /\ cancelled
    /\ pc' = "stopped"
    /\ ret' = Nil
    /\ UNCHANGED <<ctxErr, subscribed, msgs, closed, emitted, cur, n, err, cap,
                   errChan, receiving, handled, returns, decisions, written>>
    /\ UNCHANGED crawlVars

\* select, case <-ctx.Done(): return ctx.Err()
SelectDone ==
    /\ pc = "select"
    /\ cancelled
    /\ pc' = "stopped"
    /\ ret' = ctxErr
    /\ UNCHANGED <<ctxErr, subscribed, msgs, closed, emitted, cur, n, err, cap,
                   errChan, receiving, handled, returns, decisions, written>>
    /\ UNCHANGED crawlVars

\* the loop receiving the next delivery without waiting for the ErrChan write
SelectMsgEarly ==
    /\ pc \in { "select", "send" }
    /\ msgs # << >> \/ closed
    /\ IF msgs # << >>
       THEN cur' = Head(msgs) /\ msgs' = Tail(msgs)
       ELSE cur' = 0 /\ msgs' = msgs
    /\ n' = IF Logged(n) THEN n + 1 ELSE n
    /\ handled' = IF Logged(n') THEN Append(handled, cur') ELSE handled
    /\ pc' = "handling"
    /\ UNCHANGED <<ret, ctxErr, subscribed, closed, emitted, err, cap, errChan,
                   receiving, returns, decisions, written>>
    /\ UNCHANGED crawlVars

\* select, case msg := <-msgs: a ready delivery, or the zero Delivery once the
\* stream is closed and drained; Process is entered and calls the handler
SelectMsg ==
    /\ pc = "select"
    /\ msgs # << >> \/ closed
    /\ IF msgs # << >>
       THEN cur' = Head(msgs) /\ msgs' = Tail(msgs)
       ELSE cur' = 0 /\ msgs' = msgs
    /\ n' = IF Logged(n) THEN n + 1 ELSE n
    /\ handled' = IF Logged(n') THEN Append(handled, cur') ELSE handled
    /\ pc' = "handling"
    /\ UNCHANGED <<ret, ctxErr, subscribed, closed, emitted, err, cap, errChan,
                   receiving, returns, decisions, written>>
    /\ UNCHANGED crawlVars

\* the handler returns or panics and Process runs to its end
HandlerReturn ==
    /\ pc = "handling"
    /\ \E h \in HandlerOutcomes : \E r \in recover(h) :
          LET p == Process(h, r) IN
          /\ returns' = IF Logged(n) THEN Append(returns, h) ELSE returns
          /\ decisions' = IF Logged(n) THEN decisions \o Tagged(p.calls)
                          ELSE decisions
          /\ err' = p.err
          /\ pc' = IF p.escapes THEN "crashed" ELSE "send"
    /\ UNCHANGED <<ret, ctxErr, subscribed, msgs, closed, emitted, cur, n, cap,
                   errChan, receiving, handled, written>>
    /\ UNCHANGED crawlVars

\* the write to ErrChan made only for a non-nil error
SendErrSkipNil ==
    /\ pc = "send"
    /\ err = Nil \/ receiving \/ Len(errChan) < cap
    /\ IF err = Nil
       THEN UNCHANGED <<receiving, errChan, written>>
       ELSE /\ IF receiving
               THEN receiving' = FALSE /\ errChan' = errChan
               ELSE receiving' = receiving /\ errChan' = Append(errChan, err)
            /\ written' = IF Logged(n)
                          THEN Append(written, [idx |-> n, val |-> err])
                          ELSE written
    /\ pc' = "select"
    /\ UNCHANGED <<ret, ctxErr, subscribed, msgs, closed, emitted, cur, n, err,
                   cap, handled, returns, decisions>>
    /\ UNCHANGED crawlVars

\* Work returning a message's error after writing it
SendErrReturnErr ==
    /\ pc = "send"
    /\ receiving \/ Len(errChan) < cap
    /\ IF receiving
       THEN receiving' = FALSE /\ errChan' = errChan
       ELSE receiving' = receiving /\ errChan' = Append(errChan, err)
    /\ written' = IF Logged(n) THEN Append(written, [idx |-> n, val |-> err])
                  ELSE written
    /\ IF err # Nil
       THEN pc' = "stopped" /\ ret' = err
       ELSE pc' = "select" /\ ret' = ret
    /\ UNCHANGED <<ctxErr, subscribed, msgs, closed, emitted, cur, n, err,
                   cap, handled, returns, decisions>>
    /\ UNCHANGED crawlVars

\* w.ErrChan <- err: proceeds when the receiver waits or the buffer has room
SendErr ==
    /\ pc = "send"
    /\ receiving \/ Len(errChan) < cap
    /\ IF receiving
       THEN receiving' = FALSE /\ errChan' = errChan
       ELSE receiving' = receiving /\ errChan' = Append(errChan, err)
    /\ written' = IF Logged(n) THEN Append(written, [idx |-> n, val |-> err])
                  ELSE written
    /\ pc' = "select"
    /\ UNCHANGED <<ret, ctxErr, subscribed, msgs, closed, emitted, cur, n, err,
                   cap, handled, returns, decisions>>
    /\ UNCHANGED crawlVars

\* ------------------------------------------------------------------ environment

\* the caller cancels the context (or its deadline passes)
Cancel ==
    /\ ~cancelled
    /\ ctxErr' \in CtxErrors
    /\ UNCHANGED <<pc, ret, subscribed, msgs, closed, emitted, cur, n, err, cap,
                   errChan, receiving, handled, returns, decisions, written>>
    /\ UNCHANGED crawlVars

\* the transport puts the next delivery on the stream
Deliver ==
    /\ subscribed
    /\ ~closed
    /\ emitted < MaxDeliveries
    /\ msgs = << >>
    /\ emitted' = emitted + 1
    /\ msgs' = Append(msgs, emitted + 1)
    /\ UNCHANGED <<pc, ret, ctxErr, subscribed, closed, cur, n, err, cap, errChan,
                   receiving, handled, returns, decisions, written>>
    /\ UNCHANGED crawlVars

\* the transport closes the stream (channel or connection shut down)
CloseStream ==
    /\ subscribed
    /\ ~closed
    /\ closed' = TRUE
    /\ UNCHANGED <<pc, ret, ctxErr, subscribed, msgs, emitted, cur, n, err, cap,
                   errChan, receiving, handled, returns, decisions, written>>
    /\ UNCHANGED crawlVars

\* the caller starts a receive from the empty ErrChan and waits
RecvWait ==
    /\ ~receiving
    /\ errChan = << >>
    /\ receiving' = TRUE
    /\ UNCHANGED <<pc, ret, ctxErr, subscribed, msgs, closed, emitted, cur, n, err,
                   cap, errChan, handled, returns, decisions, written>>
    /\ UNCHANGED crawlVars

\* the caller receives a buffered value from ErrChan
Recv ==
    /\ errChan # << >>
    /\ errChan' = Tail(errChan)
    /\ UNCHANGED <<pc, ret, ctxErr, subscribed, msgs, closed, emitted, cur, n, err,
                   cap, receiving, handled, returns, decisions, written>>
    /\ UNCHANGED crawlVars

Next ==
    \/ WorkStart
    \/ SelectDone
    \/ SelectMsg
    \/ HandlerReturn
    \/ SendErr
    \/ Cancel
    \/ Deliver
    \/ CloseStream
    \/ RecvWait
    \/ Recv

Spec == Init /\ [][Next]_vars

\* Work with the premises of termination: handlers return, the caller keeps
\* receiving, and select takes a case that is ready again and again
FairSpec ==
    /\ Spec
    /\ WF_vars(WorkStart)
    /\ WF_vars(HandlerReturn)
    /\ WF_vars(SendErr)
    /\ WF_vars(RecvWait)
    /\ WF_vars(Recv)
    /\ SF_vars(SelectDone)

\* ------------------------------------------------------------------ existingItem

\* some reference of refs has the parent hash p
HasParent(refs, p) == \E k \in 1..Len(refs.items) : refs.items[k].ParentHash = p

\* updateReferences that takes a reference for present only when name and
\* parent hash both match
updateReferencesByPair(i) ==
    IF i.references.nil THEN EmptyRefs
    ELSE IF i.ParentHash = "" THEN i.references
    ELSE IF \E k \in 1..Len(i.references.items) :
                i.references.items[k] = Reference(i.Name, i.ParentHash)
         THEN i.references
         ELSE Refs(Append(i.references.items, Reference(i.Name, i.ParentHash)))

\* updateReferences that puts the new reference first
updateReferencesPrepend(i) ==
    IF i.references.nil THEN EmptyRefs
    ELSE IF i.ParentHash = "" THEN i.references
    ELSE IF HasParent(i.references, i.ParentHash) THEN i.references
    ELSE Refs(<< Reference(i.Name, i.ParentHash) >> \o i.references.items)

\* updateReferences that renames the reference it finds
updateReferencesRename(i) ==
    IF i.references.nil THEN EmptyRefs
    ELSE IF i.ParentHash = "" THEN i.references
    ELSE IF HasParent(i.references, i.ParentHash)
         THEN Refs([ k \in 1..Len(i.references.items) |->
                       IF i.references.items[k].ParentHash = i.ParentHash
                       THEN Reference(i.Name, i.ParentHash)
                       ELSE i.references.items[k] ])
         ELSE Refs(Append(i.references.items, Reference(i.Name, i.ParentHash)))

\* updateReferences: the references of item i after the call
updateReferences(i) ==
    IF i.references.nil THEN EmptyRefs
    ELSE IF i.ParentHash = "" THEN i.references
    ELSE IF HasParent(i.references, i.ParentHash) THEN i.references
    ELSE Refs(Append(i.references.items, Reference(i.Name, i.ParentHash)))

\* updateIndex: the IndexItem call made for item i at time now
updateIndex(i, now) ==
    [ itemType |-> i.itemType, hash |-> i.Hash, references |-> i.references,
      lastSeen |-> now ]

\* update that writes the index only when the merge changed the references
updateIfChanged(i, now, e) ==
    LET m == [i EXCEPT !.references = updateReferences(i)] IN
    IF m.exists /\ m.references # i.references
    THEN [references |-> m.references, calls |-> << updateIndex(m, now) >>, ret |-> e]
    ELSE [references |-> m.references, calls |-> << >>, ret |-> Nil]

\* update that writes the index before it merges
updateWriteFirst(i, now, e) ==
    IF i.exists
    THEN [ references |-> updateReferences(i), calls |-> << updateIndex(i, now) >>,
           ret |-> e ]
    ELSE [references |-> updateReferences(i), calls |-> << >>, ret |-> Nil]

\* update of item i at time now, where IndexItem would return e: the merged
\* references, the IndexItem calls made and the error returned
update(i, now, e) ==
    LET m == [i EXCEPT !.references = updateReferences(i)] IN
    IF m.exists
    THEN [references |-> m.references, calls |-> << updateIndex(m, now) >>, ret |-> e]
    ELSE [references |-> m.references, calls |-> << >>, ret |-> Nil]

\* shouldCrawl with its operands in the other order
shouldCrawlExistsFirst(i, skips) ==
    IF ~i.exists
    THEN [result |-> TRUE, queries |-> 0]
    ELSE [result |-> ~skips, queries |-> 1]

\* shouldCrawl of item i where skipItem answers skips: the result and the
\* number of times skipItem was asked (it is the left operand of ||)
shouldCrawl(i, skips) ==
    [result |-> (~skips) \/ ~i.exists, queries |-> 1]

\* Indexer.GetReferences: what the index holds of the hash
GetReferences(ix) == [references |-> ix.references, itemType |-> ix.itemType]

\* Indexer.IndexItem by reconciler r returning e: on success the index keeps
\* the properties of the call
IndexItem(ix, c, r, e) ==
    IF e = Nil
    THEN [ix EXCEPT !.references = c.references, !.lastSeen = c.lastSeen,
                    !.writer = r]
    ELSE ix

\* nowISO: the time of a call, later than every last-seen the index holds
nowISO == index.lastSeen + 1

\* the history of one more call op on an item whose references were before
Called(i, op) ==
    [i EXCEPT !.calls = i.calls + 1, !.prevOp = i.lastOp, !.lastOp = op,
              !.prev = i.references]

\* getExistingItem: GetReferences fails, or the existingItem is built from
\* what the index holds
GetExistingItem(r) ==
    /\ rec[r].pc = "new"
    /\ \E e \in { Nil, StoreErr } :
          IF e # Nil
          THEN rec' = [rec EXCEPT ![r].pc = "failed", ![r].retErr = e]
          ELSE rec' = [rec EXCEPT ![r].pc = "item",
                                  ![r].exists = ~GetReferences(index).references.nil,
                                  ![r].references = GetReferences(index).references,
                                  ![r].itemType = GetReferences(index).itemType,
                                  ![r].fetched = GetReferences(index).references,
                                  ![r].seen = index.lastSeen]
    /\ UNCHANGED index
    /\ UNCHANGED workerVars

\* a call of updateReferences
UpdateReferences(r) ==
    /\ rec[r].pc = "item"
    /\ rec[r].calls < MaxCalls
    /\ rec' = [rec EXCEPT ![r] =
                 [Called(rec[r], "updateReferences") EXCEPT
                     !.references = updateReferences(rec[r])]]
    /\ UNCHANGED index
    /\ UNCHANGED workerVars

\* a call of update: the merge, and the index write if the item exists; the
\* index keeps the properties of a successful IndexItem
Update(r) ==
    /\ rec[r].pc = "item"
    /\ rec[r].calls < MaxCalls
    /\ \E e \in { Nil, IndexErr } :
          LET u == update(rec[r], nowISO, e) IN
          /\ rec' = [rec EXCEPT ![r] =
                       [Called(rec[r], "update") EXCEPT
                           !.references = u.references,
                           !.retErr = u.ret,
                           !.nUpdate = @ + 1,
                           !.nWrite = @ + Len(u.calls),
                           !.lastCall = IF u.calls # << >> THEN u.calls[1] ELSE @,
                           !.callErr = IF u.calls # << >> THEN e ELSE @]]
          /\ index' = IF u.calls # << >>
                      THEN IndexItem(index, u.calls[1], r, e)
                      ELSE index
    /\ UNCHANGED workerVars

\* a call of shouldCrawl, the skip policy answering either way
ShouldCrawl(r) ==
    /\ rec[r].pc = "item"
    /\ rec[r].calls < MaxCalls
    /\ \E skips \in BOOLEAN :
          LET c == shouldCrawl(rec[r], skips) IN
          rec' = [rec EXCEPT ![r] =
                    [Called(rec[r], "shouldCrawl") EXCEPT
                        !.retBool = c.result,
                        !.skip = skips,
                        !.nCrawl = @ + 1,
                        !.nSkip = @ + c.queries]]
    /\ UNCHANGED index
    /\ UNCHANGED workerVars

\* what the index can hold of the hash: nothing, or a type and references
IndexStates ==
    { NotIndexed } \cup
    { [references |-> Refs(q), itemType |-> t, lastSeen |-> 0, writer |-> 0] :
        q \in SeqsUpTo({ Reference(nm, p) : nm \in Names, p \in Parents }, MaxRefs),
        t \in Types }

\* one reconciliation: any index content, any candidate
ItemInit ==
    /\ WorkerInit
    /\ cap = 0
    /\ index \in IndexStates
    /\ \E nm \in Names : \E p \in Parents \cup { "" } :
          rec = [r \in Reconcilers |-> NewRec(nm, p)]

ItemNext ==
    \/ GetExistingItem(1)
    \/ UpdateReferences(1)
    \/ Update(1)
    \/ ShouldCrawl(1)

ItemSpec == ItemInit /\ [][ItemNext]_vars

\* two reconcilers of the same indexed hash, found under P1 and under P2, each
\* doing getExistingItem and then update once
RaceInit ==
    /\ WorkerInit
    /\ cap = 0
    /\ index \in IndexStates \ { NotIndexed }
    /\ \E n1 \in Names : \E n2 \in Names :
          rec = [r \in Reconcilers |->
                   IF r = 1 THEN NewRec(n1, "P1") ELSE NewRec(n2, "P2")]

RaceNext ==
    \E r \in Reconcilers :
        \/ GetExistingItem(r)
        \/ rec[r].calls = 0 /\ Update(r)

RaceSpec == RaceInit /\ [][RaceNext]_vars

\* ------------------------------------------------------------------ history

\* the Ack/Reject calls made for the k-th message
DecisionsOf(k) == SelectSeq(decisions, LAMBDA d : d.idx = k)

\* the ErrChan writes made for the k-th message
WrittenFor(k) == SelectSeq(written, LAMBDA w : w.idx = k)

\* the one call c on the k-th message's delivery
OnlyCall(k, c) ==
    << [idx |-> k, tag |-> handled[k], op |-> c.op, flag |-> c.flag] >>

\* Process returned for the k-th message and its ErrChan write is still to come
Pending(k) == pc = "send" /\ n = k

\* the messages whose handler returned e, returned nil, panicked
ReturnedErr(k) == returns[k].how = "return" /\ returns[k].e # Nil

ReturnedNil(k) == returns[k].how = "return" /\ returns[k].e = Nil

Panicked(k) == returns[k].how = "panic"

\* ------------------------------------------------------------------ claims

\* C1: every message of a delivery that Process has finished got exactly one
\* terminal call, one Ack or one Reject, whichever way the handler ended.
C1_ExactlyOneDecision ==
    \A k \in 1..Len(returns) :
        handled[k] # 0 => Len(DecisionsOf(k)) = 1

\* C2: a message whose handler returned the error E was rejected once with
\* requeue = false and nothing else, and E itself is the one value written to
\* ErrChan for it (still held in err while the write is pending).
C2_ErrorRejectedAndReported ==
    \A k \in 1..Len(returns) :
        ReturnedErr(k) =>
            /\ DecisionsOf(k) = OnlyCall(k, [op |-> "Reject", flag |-> FALSE])
            /\ IF Pending(k)
               THEN WrittenFor(k) = << >> /\ err = returns[k].e
               ELSE WrittenFor(k) = << [idx |-> k, val |-> returns[k].e] >>

\* C2 witness: a delivery's handler returned E1 and E1 has been written
C2_Witness ==
    \E k \in 1..Len(written) :
        /\ handled[k] # 0
        /\ ReturnedErr(k)
        /\ written[k].val = HandlerErr("E1")
        /\ pc = "select"

\* C3: a message whose handler returned nil was acknowledged once and nothing
\* else, and nil is the one value written to ErrChan for it.
C3_SuccessAckedAndNil ==
    \A k \in 1..Len(returns) :
        ReturnedNil(k) =>
            /\ DecisionsOf(k) = OnlyCall(k, [op |-> "Ack", flag |-> FALSE])
            /\ IF Pending(k)
               THEN WrittenFor(k) = << >> /\ err = Nil
               ELSE WrittenFor(k) = << [idx |-> k, val |-> Nil] >>

\* C3 witness: a delivery's handler returned nil and nil has been written
C3_Witness ==
    \E k \in 1..Len(written) :
        /\ handled[k] # 0
        /\ ReturnedNil(k)
        /\ written[k].val = Nil
        /\ decisions # << >>

\* the error the claim expects of a panic with value v
PanicErrOK(v, e) ==
    /\ e # Nil
    /\ CASE v.type = "string" -> e.text = v.s
         [] v.type = "error" -> e = v.e
         [] v.type = "nil" ->
              e = PanicNilError \/ e.text = "Unassertable panic error: <nil>"
         [] OTHER -> e.text = "Unassertable panic error: " \o FormatV(v)

\* C4: a message whose handler panicked was rejected once with requeue = false
\* and never acknowledged, and the value for ErrChan is a non-nil error made
\* from the panic value.
C4_PanicRejectedAndReported ==
    \A k \in 1..Len(returns) :
        Panicked(k) =>
            /\ DecisionsOf(k) = OnlyCall(k, [op |-> "Reject", flag |-> FALSE])
            /\ IF Pending(k)
               THEN PanicErrOK(returns[k].r, err)
               ELSE /\ Len(WrittenFor(k)) = 1
                    /\ PanicErrOK(returns[k].r, WrittenFor(k)[1].val)

\* C5: a handler panic does not end the Worker: whenever some message's
\* handler has panicked, Work is still in its loop, or has returned the
\* context's error after a cancellation; it has not died of the panic.
C5_PanicContained ==
    \A k \in 1..Len(returns) :
        Panicked(k) =>
            /\ pc \in { "select", "handling", "send", "stopped" }
            /\ pc = "stopped" => cancelled /\ ret = ctxErr

\* C5 witness: the first delivery's handler panicked, the context is not
\* cancelled, and the second delivery was then acknowledged and reported nil
C5_Witness ==
    /\ Len(written) >= 2
    /\ ~cancelled
    /\ Panicked(1)
    /\ handled[2] = 2
    /\ ReturnedNil(2)
    /\ DecisionsOf(2) = OnlyCall(2, [op |-> "Ack", flag |-> FALSE])
    /\ written[2].val = Nil

\* the errors Process can return for a handler outcome h
OutcomeOf(h) == { Process(h, r).err : r \in recover(h) }

\* C6: ErrChan gets one value per processed message, in delivery order: the
\* k-th write belongs to the k-th message received, which is the k-th
\* delivery the transport emitted (or a receive from the closed stream), and
\* carries that message's outcome; no message is skipped or written twice.
C6_OnePerMessageInOrder ==
    /\ Len(written) <= Len(returns)
    /\ Len(returns) <= Len(handled)
    /\ Len(handled) <= Len(written) + 1
    /\ \A k \in 1..Len(handled) :
          /\ handled[k] \in { 0, k }
          /\ handled[k] = 0 => closed
    /\ \A k \in 1..Len(returns) :
          IF Pending(k) THEN Len(written) = k - 1 ELSE Len(written) >= k
    /\ \A j \in 1..Len(written) :
          /\ written[j].idx = j
          /\ written[j].val \in OutcomeOf(returns[j])
          /\ ReturnedNil(j) => written[j].val = Nil
          /\ ReturnedErr(j) => written[j].val = returns[j].e

\* C6 witness: two deliveries, the first succeeded and the second failed, and
\* ErrChan was written nil, then the error
C6_Witness ==
    /\ Len(written) = 2
    /\ handled = << 1, 2 >>
    /\ ReturnedNil(1)
    /\ ReturnedErr(2)
    /\ written[1].val = Nil
    /\ written[2].val = HandlerErr("E1")

\* the ErrChan write cannot proceed: no receiver waits, the buffer is full
WriteBlocked == pc = "send" /\ ~receiving /\ Len(errChan) >= cap

\* C7: one message in flight: outside a message's processing every message
\* received has returned from Process and been written to ErrChan; a handler
\* is invoked only from the select, with nothing outstanding; and from the
\* pending ErrChan write no step takes a delivery off the stream or starts a
\* handler.
C7_OneInFlight ==
    /\ [](pc \in { "start", "select", "stopped" } =>
            Len(returns) = Len(handled) /\ Len(written) = Len(handled))
    /\ [][ /\ (pc' = "handling" /\ pc # "handling") =>
                /\ pc = "select"
                /\ Len(returns) = Len(handled)
                /\ Len(written) = Len(handled)
           /\ pc = "send" =>
                /\ pc' \in { "send", "select" }
                /\ handled' = handled
                /\ n' = n
                /\ Len(msgs') >= Len(msgs)
           /\ WriteBlocked => pc' = "send" ]_vars

\* C7 witness: the ErrChan write of the first message is blocked while the
\* second delivery waits on the stream
C7_Witness ==
    /\ WriteBlocked
    /\ n = 1
    /\ msgs = << 2 >>
    /\ written = << >>

\* C8: when Consume fails Work has returned Consume's error, and no handler
\* was invoked, no delivery acked or rejected, nothing written to ErrChan.
C8_ConsumeFailureReturns ==
    (pc # "start" /\ ~subscribed) =>
        /\ pc = "stopped"
        /\ ret = TransportErr
        /\ n = 0
        /\ handled = << >>
        /\ returns = << >>
        /\ decisions = << >>
        /\ written = << >>
        /\ errChan = << >>

\* C8 witness: Consume failed while the caller waits on ErrChan
C8_Witness ==
    /\ pc = "stopped"
    /\ ~subscribed
    /\ ret = TransportErr
    /\ receiving

\* C9: once subscribed, Work has returned only if the context was cancelled,
\* and then with the context's error; no panic has ended it.
C9_StoppedOnlyByCancel ==
    subscribed =>
        /\ pc # "crashed"
        /\ pc = "stopped" => cancelled /\ ret = ctxErr

\* C9 witness: Work returned the context's error after a handler error and a
\* handler panic, neither of which stopped it
C9_Witness ==
    /\ subscribed
    /\ pc = "stopped"
    /\ ret = ctxErr
    /\ Len(written) = 2
    /\ ReturnedErr(1)
    /\ Panicked(2)

\* C10: with handlers that return, a caller that keeps receiving and a fair
\* select, a cancelled context leads to Work returning the context's error.
C10_CancelLeadsToStopped ==
    (cancelled /\ subscribed) ~> (pc = "stopped" /\ ret = ctxErr)

\* C10 witness: Work returned the context's error although the closed stream
\* kept handing it messages, more than the history records
C10_Witness ==
    /\ pc = "stopped"
    /\ cancelled
    /\ ret = ctxErr
    /\ closed
    /\ n = MaxLog + 1

\* C19 as claimed: from the wait point with the context cancelled no step
\* starts a handler or makes an Ack or Reject, a pending delivery or not.
C19_NoHandlingAfterCancel ==
    [][ (cancelled /\ pc = "select") =>
            /\ pc' \in { "select", "stopped" }
            /\ handled' = handled
            /\ decisions' = decisions ]_vars

\* C19 amended: from the wait point with the context cancelled and nothing to
\* receive (the stream open and empty) the worker starts no handler and makes
\* no Ack or Reject, and its only step is to return the context's error; with
\* a delivery pending the select may take the delivery first. Once Work has
\* returned nothing more is handled, decided or written.
C19_CancelAtIdleSelect ==
    [][ /\ (cancelled /\ pc = "select" /\ msgs = << >> /\ ~closed) =>
              /\ pc' \in { "select", "stopped" }
              /\ n' = n
              /\ handled' = handled
              /\ decisions' = decisions
              /\ pc' = "stopped" => ret' = ctxErr
        /\ pc = "stopped" =>
              /\ pc' = "stopped"
              /\ ret' = ret
              /\ handled' = handled
              /\ decisions' = decisions
              /\ written' = written ]_vars

\* C19 witness: Work returned the context's error from the idle wait point,
\* having handled the one delivery that came before the cancellation
C19_Witness ==
    /\ pc = "stopped"
    /\ subscribed
    /\ ret = ctxErr
    /\ msgs = << >>
    /\ ~closed
    /\ handled = << 1 >>
    /\ Len(written) = 1

\* C20: the handler invocations and the ErrChan writes each number at most
\* the deliveries the transport emitted.
C20_OnlyEmittedHandled ==
    /\ Len(handled) <= emitted
    /\ Len(written) <= emitted

\* ------------------------------------------------------------------ claims: existingItem

\* the calls that merge the candidate's reference: updateReferences, and
\* update, which begins with it
Merged(op) == op \in { "updateReferences", "update" }

\* no two references of refs have the same parent hash
NoDup(refs) ==
    \A j \in 1..Len(refs.items) : \A k \in 1..Len(refs.items) :
        j # k => refs.items[j].ParentHash # refs.items[k].ParentHash

\* C11: a second merge in a row leaves the references as the first left them.
C11_MergeIdempotent ==
    (Merged(rec[1].lastOp) /\ Merged(rec[1].prevOp)) =>
        rec[1].references = rec[1].prev

\* C12: a merge into nil references yields the non-nil empty list for the
\* empty parent hash, and the one reference {Name, ParentHash} otherwise.
C12_MergeIntoNil ==
    (Merged(rec[1].lastOp) /\ rec[1].prev.nil) =>
        IF rec[1].ParentHash = ""
        THEN rec[1].references = EmptyRefs
        ELSE rec[1].references =
                Refs(<< Reference(rec[1].Name, rec[1].ParentHash) >>)

\* C13: if the references fetched hold no parent hash twice, then after any
\* calls neither the item's references nor those written to the index do.
C13_NoDuplicateParent ==
    (rec[1].pc = "item" /\ NoDup(rec[1].fetched)) =>
        /\ NoDup(rec[1].references)
        /\ NoDup(index.references)

\* C13 witness: the candidate's parent was stored under another name, the
\* item was updated twice and written, and no second reference was added
C13_Witness ==
    /\ rec[1].pc = "item"
    /\ rec[1].fetched = Refs(<< Reference("b", "P1"), Reference("a", "P2") >>)
    /\ rec[1].Name = "a"
    /\ rec[1].ParentHash = "P1"
    /\ rec[1].nWrite = 2
    /\ rec[1].references = rec[1].fetched

\* C14: a merge of a non-empty parent hash that no reference has, into
\* non-nil references, appends {Name, ParentHash} to them as they were.
C14_MergeAppends ==
    ( /\ Merged(rec[1].lastOp)
      /\ ~rec[1].prev.nil
      /\ rec[1].ParentHash # ""
      /\ rec[1].ParentHash \notin ParentsOf(rec[1].prev) ) =>
        /\ ~rec[1].references.nil
        /\ Len(rec[1].references.items) = Len(rec[1].prev.items) + 1
        /\ rec[1].references.items =
              rec[1].prev.items \o
                 << [Name |-> rec[1].Name, ParentHash |-> rec[1].ParentHash] >>

\* C14 witness: a reference for P2 was appended to the one stored for P1
C14_Witness ==
    /\ rec[1].lastOp = "updateReferences"
    /\ rec[1].prev = Refs(<< Reference("a", "P1") >>)
    /\ rec[1].references =
          Refs(<< Reference("a", "P1"), Reference("b", "P2") >>)

\* C15: a merge of a parent hash that some reference already has changes
\* nothing, the stored name included.
C15_MergeKnownParentNoOp ==
    ( /\ Merged(rec[1].lastOp)
      /\ rec[1].ParentHash \in ParentsOf(rec[1].prev) ) =>
        rec[1].references = rec[1].prev

\* C15 witness: the parent is stored under the name "b", the candidate is
\* named "a", and the merge left the stored reference as it was
C15_Witness ==
    /\ rec[1].lastOp = "updateReferences"
    /\ rec[1].calls = 1
    /\ rec[1].Name = "a"
    /\ rec[1].ParentHash = "P2"
    /\ rec[1].prev = Refs(<< Reference("b", "P2") >>)
    /\ rec[1].references = rec[1].prev

\* C16: every update of an existing item makes one IndexItem call, with the
\* item's type and hash and the merged references, and returns the call's
\* error; an update of an item that does not exist makes no call and returns
\* nil, its references no longer nil (the non-nil empty list where they were
\* nil before the call).
C16_UpdateWritesIffExists ==
    /\ rec[1].nWrite = IF rec[1].exists THEN rec[1].nUpdate ELSE 0
    /\ rec[1].lastOp = "update" =>
          IF rec[1].exists
          THEN /\ rec[1].lastCall.itemType = rec[1].itemType
               /\ rec[1].lastCall.hash = TheHash
               /\ rec[1].lastCall.references = rec[1].references
               /\ rec[1].retErr = rec[1].callErr
               /\ rec[1].retErr = Nil => index.references = rec[1].references
          ELSE /\ rec[1].lastCall = NoCall
               /\ rec[1].retErr = Nil
               /\ ~rec[1].references.nil
               /\ rec[1].prev.nil => rec[1].references = EmptyRefs
               /\ index = NotIndexed

\* C16 witness: a second update whose merge changed nothing wrote the index
\* again, and IndexItem's error came back
C16_Witness ==
    /\ rec[1].lastOp = "update"
    /\ rec[1].prevOp = "update"
    /\ rec[1].exists
    /\ rec[1].ParentHash = "P1"
    /\ rec[1].references = rec[1].prev
    /\ rec[1].nWrite = 2
    /\ rec[1].retErr = IndexErr

\* C17: shouldCrawl is true for an item that does not exist, and the negation
\* of the skip policy's answer for one that does; each call asks the policy
\* once.
C17_ShouldCrawl ==
    /\ rec[1].nSkip = rec[1].nCrawl
    /\ rec[1].lastOp = "shouldCrawl" =>
          rec[1].retBool = IF rec[1].exists THEN ~rec[1].skip ELSE TRUE

\* C17 witness: the policy said skip and the item does not exist
C17_Witness ==
    /\ rec[1].lastOp = "shouldCrawl"
    /\ ~rec[1].exists
    /\ rec[1].skip
    /\ rec[1].retBool
    /\ rec[1].nSkip = 1

\* reconciler r fetched, updated and wrote without an error
Reconciled(r) ==
    rec[r].pc = "item" /\ rec[r].lastOp = "update" /\ rec[r].retErr = Nil

\* C18 as claimed: once both reconcilers are through, the index has a
\* reference for P1 and one for P2.
C18_Convergent ==
    (Reconciled(1) /\ Reconciled(2)) =>
        { "P1", "P2" } \subseteq ParentsOf(index.references)

\* C18 amended: once both are through, the index has the reference of the
\* reconciler that wrote last; it has the other's too exactly when the last
\* writer fetched after the other's write, or fetched a list that already
\* had the other's parent.
C18_LastWriterWins ==
    (Reconciled(1) /\ Reconciled(2)) =>
        LET w == index.writer
            o == 3 - index.writer
        IN  /\ w \in Reconcilers
            /\ rec[w].ParentHash \in ParentsOf(index.references)
            /\ rec[o].ParentHash \in ParentsOf(index.references) <=>
                  \/ rec[w].seen >= 1
                  \/ rec[o].ParentHash \in ParentsOf(rec[w].fetched)

\* C18 witness: the index held neither parent, the second reconciler fetched
\* after the first had written, and the index has both references
C18_Witness ==
    /\ Reconciled(1)
    /\ Reconciled(2)
    /\ rec[1].fetched = EmptyRefs
    /\ index.writer = 2
    /\ rec[2].seen = 1
    /\ ParentsOf(index.references) = { "P1", "P2" }

====
